---- MODULE Spec2Model ----
(***************************************************************************)
(* Vehicle lifecycle of the smart-parking service: the two camera pollers  *)
(* (app/camera_service.py) calling handle_vehicle_entry /                  *)
(* handle_vehicle_exit (app/main.py), the payment endpoint process_payment *)
(* (app/main.py), the ledger operations of app/crud.py and the fee         *)
(* calculation of app/payment_service.py.                                  *)
(*                                                                         *)
(* All coroutines run on one asyncio event loop, so the code between two   *)
(* awaits is one atomic step.  Every action below is one such segment.     *)
(* Time is counted in seconds.                                             *)
(***************************************************************************)
EXTENDS Integers, Sequences, FiniteSets, TLC

\* ---------------------------------------------------------------- bounds
MaxEntries == 2      \* rows the vehicle_entries table may hold
MaxTicks == 1        \* times the clock advances
MaxHours == 3        \* whole hours in the timestamps given to the fee calculation

\* ------------------------------------------------------ program constants
DefaultBasePrice == 50        \* base_price_per_hour of the default settings
DefaultAdditionalPrice == 30  \* additional_price_per_hour of the default settings
DefaultFreeMinutes == 15      \* free_minutes of the default settings

\* ------------------------------------------------------------ input sets
Plates == {"A123BC", "B456DE"}
Amounts == {7, 50}            \* amounts a payment request may claim
Clients == {"c1"}             \* callers of POST /api/payment/
NoTime == -1                  \* a NULL timestamp column
NoQR == <<>>                  \* a NULL payment_qr column

VARIABLES
    entries,      \* table vehicle_entries: sequence of rows, id = index
    settings,     \* table parking_settings: sequence of rows
    now,          \* wall clock, seconds
    ticks,        \* number of clock advances so far
    started,      \* startup_event has run
    entryPoller,  \* monitor_entry_camera and the handler it awaits
    exitPoller,   \* monitor_exit_camera and the handler it awaits
    payment,      \* per client: the process_payment call in flight
    monitoring_active,  \* the global flag of main.py
    operator,     \* the manual barrier or emergency request in flight
    fee_call,     \* a call of calculate_parking_fee: its arguments and result
    admin,        \* the settings update request in flight
    handlers      \* per gate: the detection handlers called and not yet returned

vars == <<entries, settings, now, ticks, started, entryPoller, exitPoller,
          payment, monitoring_active, operator, fee_call, admin, handlers>>

\* ------------------------------------------------------------- app/models
\* VehicleEntry(**entry.dict()) with the column defaults of models.py
VehicleEntry(plate, t) ==
    [plate_number |-> plate, entry_time |-> t, exit_time |-> NoTime,
     parking_fee |-> 0, paid |-> FALSE, payment_qr |-> NoQR]

ParkingSettings(base, additional, free) ==
    [base_price_per_hour |-> base, additional_price_per_hour |-> additional,
     free_minutes |-> free]

DefaultSettings ==
    ParkingSettings(DefaultBasePrice, DefaultAdditionalPrice, DefaultFreeMinutes)

Max(a, b) == IF a >= b THEN a ELSE b

\* --------------------------------------------------------------- app/crud
\* mutant: the new row takes the place of the newest row of the table
create_vehicle_entry_replacing(es, plate, t) ==
    IF Len(es) > 0
    THEN [es EXCEPT ![Len(es)] = VehicleEntry(plate, t)]
    ELSE Append(es, VehicleEntry(plate, t))

\* db.add + commit: the new row gets the next id; entry_time is func.now()
create_vehicle_entry(es, plate, t) == Append(es, VehicleEntry(plate, t))

\* mutant: the filter on the id is lost, first() returns the first row
get_vehicle_entry_unfiltered(es, id) == IF Len(es) > 0 THEN 1 ELSE 0

\* id of the row, or 0 for None
get_vehicle_entry(es, id) == IF id \in 1..Len(es) THEN id ELSE 0

\* ids of the rows of the plate (with exit_time IS NULL when exclude_exited)
RowsByPlate(es, plate, exclude_exited) ==
    {i \in 1..Len(es) :
        /\ es[i].plate_number = plate
        /\ (exclude_exited => es[i].exit_time = NoTime)}

\* order_by(desc(entry_time)).first() on a non-empty set of rows: the row with
\* the latest entry_time (the database picks among equals; the highest id here)
LatestRow(es, rows) ==
    CHOOSE i \in rows :
        \A j \in rows : \/ es[j].entry_time < es[i].entry_time
                        \/ (es[j].entry_time = es[i].entry_time /\ j <= i)

\* the row of the plate with the latest entry_time, or 0 for None
\* mutant: exit_time.isnot(None) in place of exit_time.is_(None)
get_vehicle_entry_by_plate_exited(es, plate, exclude_exited) ==
    LET rows == RowsByPlate(es, plate, FALSE) \ RowsByPlate(es, plate, exclude_exited)
    IN  IF rows = {} THEN 0 ELSE LatestRow(es, rows)

\* mutant: the exclude_exited filter is not applied
get_vehicle_entry_by_plate_any(es, plate, exclude_exited) ==
    LET rows == RowsByPlate(es, plate, FALSE)
    IN  IF rows = {} THEN 0 ELSE LatestRow(es, rows)

get_vehicle_entry_by_plate(es, plate, exclude_exited) ==
    LET rows == RowsByPlate(es, plate, exclude_exited)
    IN  IF rows = {} THEN 0 ELSE LatestRow(es, rows)

\* mutant: the fields the caller did not set are written too (dict() in
\* place of dict(exclude_unset=True)), paid among them
update_vehicle_entry_unset_fields(es, id, exit_time, parking_fee) ==
    IF id \in 1..Len(es)
    THEN [es EXCEPT ![id].exit_time = exit_time, ![id].parking_fee = parking_fee,
                    ![id].paid = FALSE]
    ELSE es

\* setattr of exit_time, exit_image, parking_fee on the row, commit
update_vehicle_entry(es, id, exit_time, parking_fee) ==
    IF id \in 1..Len(es)
    THEN [es EXCEPT ![id].exit_time = exit_time, ![id].parking_fee = parking_fee]
    ELSE es

mark_as_paid(es, id) ==
    IF id \in 1..Len(es) THEN [es EXCEPT ![id].paid = TRUE] ELSE es

\* mutant: the query finds no row, whatever the table holds
get_parking_settings_none(ss) == 0

\* db.query(ParkingSettings).first(): index of the row, 0 for None
get_parking_settings(ss) == IF Len(ss) > 0 THEN 1 ELSE 0

create_parking_settings(ss, s) == Append(ss, s)

\* ---------------------------------------------------- app/payment_service
\* mutant: the free minutes are not applied, only an empty interval is free
calculate_parking_fee_no_grace(entry_time, exit_time, s) ==
    IF entry_time = NoTime \/ exit_time = NoTime THEN 0
    ELSE LET secs == exit_time - entry_time
         IN  IF secs < 0 THEN 0
             ELSE LET chargeable_hours == Max(1, (secs + 59 * 60) \div 3600)
                  IN  IF chargeable_hours = 1 THEN s.base_price_per_hour
                      ELSE s.base_price_per_hour
                           + (chargeable_hours - 1) * s.additional_price_per_hour

\* parking_duration is (exit - entry) in minutes as a float; the comparisons
\* are carried out on seconds, which is exact.
calculate_parking_fee(entry_time, exit_time, s) ==
    IF entry_time = NoTime \/ exit_time = NoTime THEN 0
    ELSE LET secs == exit_time - entry_time
             free == 60 * s.free_minutes
         IN  IF secs <= free THEN 0
             ELSE LET chargeable_hours == Max(1, (secs - free + 59 * 60) \div 3600)
                  IN  IF chargeable_hours = 1 THEN s.base_price_per_hour
                      ELSE s.base_price_per_hour
                           + (chargeable_hours - 1) * s.additional_price_per_hour

\* the text the QR image encodes: PAY:<id>:<amount>:<plate>
generate_qr_code(id, plate, amount) == <<"PAY", id, amount, plate>>

\* the stub: every claim is accepted
verify_payment(vehicle_id, amount) == TRUE

\* ------------------------------------------------------ app/barrier_service
\* mutant: the url of the entry barrier is used for both gates
control_barrier_entry_url(action, is_entry) == <<"entry", action>>

\* open_entry_barrier, close_entry_barrier, open_exit_barrier,
\* close_exit_barrier: the command control_barrier sends.  It returns a bool
\* and raises nothing; no handler of a detection or a payment reads the bool.
control_barrier(action, is_entry) ==
    <<IF is_entry THEN "entry" ELSE "exit", action>>

\* what session.put does with a command: the device answers with an HTTP
\* status, or the request raises (timeout=5, no connection)
Outcomes ==
    {[raised |-> "none", status |-> 200],
     [raised |-> "none", status |-> 500],
     [raised |-> "TimeoutError", status |-> 0],
     [raised |-> "ClientConnectorError", status |-> 0]}

\* mutant: a timeout is taken for a command that went through
control_barrier_success_on_timeout(outcome) ==
    IF outcome.raised = "TimeoutError" THEN TRUE
    ELSE IF outcome.raised # "none" THEN FALSE
    ELSE outcome.status = 200

\* the bool control_barrier returns: response.status == 200, False from the
\* except clause
control_barrier_success(outcome) ==
    IF outcome.raised # "none" THEN FALSE ELSE outcome.status = 200

\* mutant: control_barrier has no except clause, what session.put raises
\* reaches the caller
control_barrier_returns_unguarded(outcome) == outcome.raised = "none"

\* whether control_barrier returns to its caller: except Exception covers
\* whatever session.put raises, so it returns for every outcome
control_barrier_returns(outcome) == TRUE

\* a command and the bool it returned
Command(action, is_entry, outcome) ==
    Append(control_barrier(action, is_entry), control_barrier_success(outcome))

\* ----------------------------------------------------- app/camera_service
\* mutant: the loop has no except clause, an exception ends it
monitor_after_unguarded(cycle) == IF cycle = "raised" THEN "stopped" ELSE "sleep"

\* where monitor_entry_camera / monitor_exit_camera goes after a cycle: the
\* sleep(5) of the try block, or the sleep(10) of the except clause when the
\* cycle raised
monitor_after(cycle) == IF cycle = "raised" THEN "backoff" ELSE "sleep"

\* mutant: the callback is started as a task of its own
\* (asyncio.create_task), the loop goes on to its sleep
callback_called_detached(returned) == monitor_after("detected")

\* where the loop stands once it has called the callback: 'await
\* callback(...)' holds it until the handler has returned, then the sleep(5)
callback_called(returned) ==
    IF returned THEN monitor_after("detected") ELSE "await"

\* --------------------------------------------------------------- app/main
\* mutant: the barrier is commanded for a row that was not committed
handle_vehicle_entry_uncommitted(es, plate, t) ==
    LET existing_entry == get_vehicle_entry_by_plate(es, plate, TRUE)
    IN  IF existing_entry # 0
        THEN [entries |-> es, id |-> 0, result |-> "duplicate"]
        ELSE [entries |-> es, id |-> Len(es) + 1, result |-> "created"]

\* mutant: the lookup of an open entry is skipped
handle_vehicle_entry_unguarded(es, plate, t) ==
    [entries |-> create_vehicle_entry(es, plate, t), id |-> Len(es) + 1,
     result |-> "created"]

\* handle_vehicle_entry up to its first await
handle_vehicle_entry(es, plate, t) ==
    LET existing_entry == get_vehicle_entry_by_plate(es, plate, TRUE)
    IN  IF existing_entry # 0
        THEN [entries |-> es, id |-> 0, result |-> "duplicate"]
        ELSE [entries |-> create_vehicle_entry(es, plate, t),
              id |-> Len(es) + 1, result |-> "created"]

\* mutant: with no settings row the handler returns, as it does with no entry
handle_vehicle_exit_unpriced(es, ss, plate, t) ==
    LET vehicle_entry == get_vehicle_entry_by_plate(es, plate, TRUE)
    IN  IF vehicle_entry = 0 \/ get_parking_settings(ss) = 0
        THEN [entries |-> es, settings |-> ss, id |-> 0, result |-> "no_entry"]
        ELSE LET parking_fee == calculate_parking_fee(
                                    es[vehicle_entry].entry_time, t, ss[1])
                 updated == update_vehicle_entry(es, vehicle_entry, t, parking_fee)
             IN  IF parking_fee > 0
                 THEN [entries |-> [updated EXCEPT ![vehicle_entry].payment_qr =
                                       generate_qr_code(vehicle_entry,
                                           updated[vehicle_entry].plate_number,
                                           parking_fee)],
                       settings |-> ss, id |-> vehicle_entry,
                       result |-> "payment_required"]
                 ELSE [entries |-> updated, settings |-> ss, id |-> vehicle_entry,
                       result |-> "free"]

\* mutant: the payment QR is generated without the test parking_fee > 0
handle_vehicle_exit_always_qr(es, ss, plate, t) ==
    LET vehicle_entry == get_vehicle_entry_by_plate(es, plate, TRUE)
    IN  IF vehicle_entry = 0
        THEN [entries |-> es, settings |-> ss, id |-> 0, result |-> "no_entry"]
        ELSE LET ss2 == IF get_parking_settings(ss) = 0
                        THEN create_parking_settings(ss, DefaultSettings)
                        ELSE ss
                 parking_fee == calculate_parking_fee(
                                    es[vehicle_entry].entry_time, t, ss2[1])
                 updated == update_vehicle_entry(es, vehicle_entry, t, parking_fee)
             IN  [entries |-> [updated EXCEPT ![vehicle_entry].payment_qr =
                                  generate_qr_code(vehicle_entry,
                                      updated[vehicle_entry].plate_number,
                                      parking_fee)],
                  settings |-> ss2, id |-> vehicle_entry,
                  result |-> IF parking_fee > 0 THEN "payment_required" ELSE "free"]

\* handle_vehicle_exit up to its first await
handle_vehicle_exit(es, ss, plate, t) ==
    LET vehicle_entry == get_vehicle_entry_by_plate(es, plate, TRUE)
    IN  IF vehicle_entry = 0
        THEN [entries |-> es, settings |-> ss, id |-> 0, result |-> "no_entry"]
        ELSE LET ss2 == IF get_parking_settings(ss) = 0
                        THEN create_parking_settings(ss, DefaultSettings)
                        ELSE ss
                 parking_settings == ss2[1]
                 parking_fee == calculate_parking_fee(
                                    es[vehicle_entry].entry_time, t, parking_settings)
                 updated == update_vehicle_entry(es, vehicle_entry, t, parking_fee)
             IN  IF parking_fee > 0
                 THEN [entries |-> [updated EXCEPT ![vehicle_entry].payment_qr =
                                       generate_qr_code(vehicle_entry,
                                           updated[vehicle_entry].plate_number,
                                           parking_fee)],
                       settings |-> ss2, id |-> vehicle_entry,
                       result |-> "payment_required"]
                 ELSE [entries |-> updated, settings |-> ss2, id |-> vehicle_entry,
                       result |-> "free"]

\* mutant: the check of vehicle_entry.paid is skipped
process_payment_unchecked(es, vehicle_id, amount) ==
    LET vehicle_entry == get_vehicle_entry(es, vehicle_id)
    IN  IF vehicle_entry = 0 THEN [entries |-> es, result |-> "NotFound"]
        ELSE IF verify_payment(vehicle_id, amount)
        THEN [entries |-> mark_as_paid(es, vehicle_id), result |-> "accepted"]
        ELSE [entries |-> es, result |-> "PaymentRejected"]

\* process_payment up to its first await
process_payment(es, vehicle_id, amount) ==
    LET vehicle_entry == get_vehicle_entry(es, vehicle_id)
    IN  IF vehicle_entry = 0 THEN [entries |-> es, result |-> "NotFound"]
        ELSE IF es[vehicle_entry].paid
        THEN [entries |-> es, result |-> "AlreadyPaid"]
        ELSE IF verify_payment(vehicle_id, amount)
        THEN [entries |-> mark_as_paid(es, vehicle_id), result |-> "accepted"]
        ELSE [entries |-> es, result |-> "PaymentRejected"]

\* ------------------------------------------------------------------ state
\* a poller between two cycles.  result keeps the outcome of the last event
\* when the ledger keeps no trace of it (a duplicate entry, an exit without an
\* entry) and the completed free exit; cmds are the barrier commands of the
\* handler in flight or of that free exit.
Idle == [pc |-> "poll", id |-> 0, result |-> "none", cmds |-> <<>>]

\* a client with no request in flight; result keeps the error of its last one
NoRequest == [pc |-> "idle", vehicle_id |-> 0, result |-> "none", cmds |-> <<>>]

\* no manual barrier or emergency request in flight; cmds keeps the commands
\* of the last one with the bool each returned, answer what the device did
\* with the last command
NoAnswer == [raised |-> "none", status |-> 0]
NoOperator == [pc |-> "idle", request |-> "none", cmds |-> <<>>,
               answer |-> NoAnswer]

\* no call of calculate_parking_fee under examination
NoCall == [entry_time |-> NoTime, exit_time |-> NoTime,
           settings |-> DefaultSettings, fee |-> 0, returned |-> FALSE]

\* no PUT /api/settings/ in flight
NoAdmin == [pc |-> "idle", found |-> 0, update |-> DefaultSettings]

\* no detection handler has been called
NoHandlers == [entry |-> <<>>, exit |-> <<>>]

Init ==
    /\ entries = <<>>
    /\ settings = <<>>
    /\ now = 0
    /\ ticks = 0
    /\ started = FALSE
    /\ entryPoller = Idle
    /\ exitPoller = Idle
    /\ payment = [c \in Clients |-> NoRequest]
    /\ monitoring_active = FALSE
    /\ operator = NoOperator
    /\ fee_call = NoCall
    /\ admin = NoAdmin
    /\ handlers = NoHandlers

\* startup_event: create the default settings when the table is empty, then
\* start the two pollers
Startup ==
    /\ ~started
    /\ started' = TRUE
    /\ settings' = IF get_parking_settings(settings) = 0
                   THEN create_parking_settings(settings, DefaultSettings)
                   ELSE settings
    /\ monitoring_active' = TRUE
    /\ UNCHANGED <<entries, now, ticks, entryPoller, exitPoller, payment>>
    /\ UNCHANGED <<operator, fee_call, admin, handlers>>

\* the instants at which events are observed: the start, an hour later, then
\* every 5 minutes
TickStep(k) == IF k = 0 THEN 3600 ELSE 300

\* A barrier sequence (two commands with timeout=5 around a 5 s sleep) lasts
\* seconds, a clock step lasts minutes: the clock steps between sequences.
Tick ==
    /\ started
    /\ ticks < MaxTicks
    /\ entryPoller.pc = "poll"
    /\ exitPoller.pc = "poll"
    /\ \A c \in DOMAIN payment : payment[c].pc = "idle"
    /\ now' = now + TickStep(ticks)
    /\ ticks' = ticks + 1
    /\ UNCHANGED <<entries, settings, started, entryPoller, exitPoller, payment>>
    /\ UNCHANGED <<monitoring_active, operator, fee_call, admin, handlers>>

\* ---- monitor_entry_camera
\* a cycle in which capture_and_recognize returns None
EntryPollEmpty ==
    /\ started
    /\ entryPoller.pc = "poll"
    /\ entryPoller' = Idle
    /\ UNCHANGED <<entries, settings, now, ticks, started, exitPoller, payment>>
    /\ UNCHANGED <<monitoring_active, operator, fee_call, admin, handlers>>

\* a cycle in which the plate is recognized: the callback runs to its first await
EntryDetection(plate) ==
    /\ started
    /\ entryPoller.pc = "poll"
    /\ LET r == handle_vehicle_entry(entries, plate, now)
       IN  /\ Len(r.entries) <= MaxEntries
           /\ entries' = r.entries
           /\ entryPoller' = IF r.result = "created"
                             THEN [pc |-> "open", id |-> 0, result |-> r.result,
                                   cmds |-> <<>>]
                             ELSE [Idle EXCEPT !.result = r.result]
    /\ UNCHANGED <<settings, now, ticks, started, exitPoller, payment>>
    /\ UNCHANGED <<monitoring_active, operator, fee_call, admin, handlers>>

\* await barrier_service.open_entry_barrier(); the dwell follows
EntryBarrierOpen ==
    /\ entryPoller.pc = "open"
    /\ entryPoller' = [entryPoller EXCEPT !.pc = "close",
                          !.cmds = Append(@, control_barrier("open", TRUE))]
    /\ UNCHANGED <<entries, settings, now, ticks, started, exitPoller, payment>>
    /\ UNCHANGED <<monitoring_active, operator, fee_call, admin, handlers>>

\* await barrier_service.close_entry_barrier(); the handler returns
EntryBarrierClose ==
    /\ entryPoller.pc = "close"
    /\ entryPoller' = Idle
    /\ UNCHANGED <<entries, settings, now, ticks, started, exitPoller, payment>>
    /\ UNCHANGED <<monitoring_active, operator, fee_call, admin, handlers>>

\* ---- monitor_exit_camera
ExitPollEmpty ==
    /\ started
    /\ exitPoller.pc = "poll"
    /\ exitPoller' = Idle
    /\ UNCHANGED <<entries, settings, now, ticks, started, entryPoller, payment>>
    /\ UNCHANGED <<monitoring_active, operator, fee_call, admin, handlers>>

ExitDetection(plate) ==
    /\ started
    /\ exitPoller.pc = "poll"
    /\ LET r == handle_vehicle_exit(entries, settings, plate, now)
       IN  /\ entries' = r.entries
           /\ settings' = r.settings
           /\ exitPoller' = IF r.result = "free"
                            THEN [pc |-> "open", id |-> r.id, result |-> r.result,
                                  cmds |-> <<>>]
                            ELSE IF r.result = "no_entry"
                            THEN [Idle EXCEPT !.result = r.result]
                            ELSE Idle
    /\ UNCHANGED <<now, ticks, started, entryPoller, payment>>
    /\ UNCHANGED <<monitoring_active, operator, fee_call, admin, handlers>>

ExitBarrierOpen ==
    /\ exitPoller.pc = "open"
    /\ exitPoller' = [exitPoller EXCEPT !.pc = "close",
                         !.cmds = Append(@, control_barrier("open", FALSE))]
    /\ UNCHANGED <<entries, settings, now, ticks, started, entryPoller, payment>>
    /\ UNCHANGED <<monitoring_active, operator, fee_call, admin, handlers>>

ExitBarrierClose ==
    /\ exitPoller.pc = "close"
    /\ exitPoller' = [exitPoller EXCEPT !.pc = "mark",
                         !.cmds = Append(@, control_barrier("close", FALSE))]
    /\ UNCHANGED <<entries, settings, now, ticks, started, entryPoller, payment>>
    /\ UNCHANGED <<monitoring_active, operator, fee_call, admin, handlers>>

\* the close command has returned: crud.mark_as_paid, the handler returns
ExitMarkPaid ==
    /\ exitPoller.pc = "mark"
    /\ entries' = mark_as_paid(entries, exitPoller.id)
    /\ exitPoller' = [exitPoller EXCEPT !.pc = "poll", !.id = 0,
                         !.result = "free_exit"]
    /\ UNCHANGED <<settings, now, ticks, started, entryPoller, payment>>
    /\ UNCHANGED <<monitoring_active, operator, fee_call, admin, handlers>>

\* ---- POST /api/payment/
PaymentRequest(c, vehicle_id, amount) ==
    /\ started
    /\ payment[c].pc = "idle"
    /\ LET r == process_payment(entries, vehicle_id, amount)
       IN  /\ entries' = r.entries
           /\ payment' = [payment EXCEPT ![c] =
                 IF r.result = "accepted"
                 THEN [pc |-> "open", vehicle_id |-> vehicle_id,
                       result |-> r.result, cmds |-> <<>>]
                 ELSE [NoRequest EXCEPT !.result = r.result]]
    /\ UNCHANGED <<settings, now, ticks, started, entryPoller, exitPoller>>
    /\ UNCHANGED <<monitoring_active, operator, fee_call, admin, handlers>>

PaymentBarrierOpen(c) ==
    /\ payment[c].pc = "open"
    /\ payment' = [payment EXCEPT ![c].pc = "close",
                      ![c].cmds = Append(@, control_barrier("open", FALSE))]
    /\ UNCHANGED <<entries, settings, now, ticks, started, entryPoller, exitPoller>>
    /\ UNCHANGED <<monitoring_active, operator, fee_call, admin, handlers>>

\* the close command has returned: the response {"status": "success"}
PaymentBarrierClose(c) ==
    /\ payment[c].pc = "close"
    /\ payment' = [payment EXCEPT ![c] = NoRequest]
    /\ UNCHANGED <<entries, settings, now, ticks, started, entryPoller, exitPoller>>
    /\ UNCHANGED <<monitoring_active, operator, fee_call, admin, handlers>>

Next ==
    \/ Startup
    \/ Tick
    \/ EntryPollEmpty
    \/ \E plate \in Plates : EntryDetection(plate)
    \/ EntryBarrierOpen
    \/ EntryBarrierClose
    \/ ExitPollEmpty
    \/ \E plate \in Plates : ExitDetection(plate)
    \/ ExitBarrierOpen
    \/ ExitBarrierClose
    \/ ExitMarkPaid
    \/ \E c \in Clients, vehicle_id \in 1..(Len(entries) + 1), amount \in Amounts :
          PaymentRequest(c, vehicle_id, amount)
    \/ \E c \in Clients : PaymentBarrierOpen(c)
    \/ \E c \in Clients : PaymentBarrierClose(c)

Spec == Init /\ [][Next]_vars

\* ============================================================== properties
OpenEntries(plate) == RowsByPlate(entries, plate, TRUE)

ExitOpenClose == <<control_barrier("open", FALSE), control_barrier("close", FALSE)>>

\* C1: in every reachable state, whatever the interleaving of entry
\* detections, exit detections and payment confirmations, each plate has at
\* most one entry without an exit timestamp.
C1_AtMostOneOpenEntry ==
    \A plate \in Plates : Cardinality(OpenEntries(plate)) <= 1

\* a plate that left and came back is parked again, and a repeated detection
\* of it has been refused
C1_Witness ==
    /\ entryPoller.result = "duplicate"
    /\ \E plate \in Plates :
         /\ Cardinality(OpenEntries(plate)) = 1
         /\ Cardinality(RowsByPlate(entries, plate, FALSE)) = 2

\* C2: handling an entry detection for a plate with no open entry creates
\* exactly one entry, and handling the same detection again in the state
\* reached creates nothing.
C2_EntryIdempotent ==
    [][\A plate \in Plates :
         (EntryDetection(plate) /\ OpenEntries(plate) = {}) =>
            /\ Len(entries') = Len(entries) + 1
            /\ entries'[Len(entries')].plate_number = plate
            /\ entries'[Len(entries')].exit_time = NoTime
            /\ SubSeq(entries', 1, Len(entries)) = entries
            /\ handle_vehicle_entry(entries', plate, now').entries = entries'
            /\ handle_vehicle_entry(entries', plate, now').result = "duplicate"]_vars

\* the ledger holds the one entry the first handling created, the second
\* handling was refused
C2_Witness ==
    /\ Len(entries) = 1
    /\ entries[1].exit_time = NoTime
    /\ entryPoller.result = "duplicate"

\* C3 as claimed: an exit detection that matches an open entry and computes a
\* fee > 0 leaves the entry with exit timestamp and fee set, paid = FALSE and
\* a payment intent stored, and commands no barrier.
C3_PaidExitLeavesUnpaid ==
    [][\A plate \in Plates :
         LET id == get_vehicle_entry_by_plate(entries, plate, TRUE)
         IN  (ExitDetection(plate) /\ id # 0 /\ entries'[id].parking_fee > 0) =>
                /\ entries'[id].exit_time = now
                /\ entries'[id].parking_fee =
                      calculate_parking_fee(entries[id].entry_time, now, settings'[1])
                /\ entries'[id].paid = FALSE
                /\ entries'[id].payment_qr # NoQR
                /\ exitPoller'.pc = "poll"
                /\ exitPoller'.cmds = <<>>]_vars

\* C4: an exit detection that matches an open entry parked for no longer than
\* the free minutes sets exit timestamp and fee 0 and starts the barrier
\* sequence; when the handler returns the entry has exit timestamp, fee 0 and
\* paid = TRUE and the exit barrier was commanded open, then close.
C4_FreeExit ==
    [][/\ \A plate \in Plates :
            LET id == get_vehicle_entry_by_plate(entries, plate, TRUE)
            IN  (/\ ExitDetection(plate)
                 /\ id # 0
                 /\ now - entries[id].entry_time <= 60 * settings'[1].free_minutes) =>
                    /\ entries'[id].exit_time = now
                    /\ entries'[id].parking_fee = 0
                    /\ exitPoller'.pc = "open"
                    /\ exitPoller'.id = id
                    /\ exitPoller'.cmds = <<>>
       /\ (exitPoller.pc # "poll" /\ exitPoller'.pc = "poll") =>
            /\ entries'[exitPoller.id].exit_time # NoTime
            /\ entries'[exitPoller.id].parking_fee = 0
            /\ entries'[exitPoller.id].paid = TRUE
            /\ exitPoller'.cmds = ExitOpenClose]_vars

\* a stay within the free minutes has been handled to the end: free, paid,
\* barrier cycled
C4_Witness ==
    /\ exitPoller.pc = "poll"
    /\ exitPoller.result = "free_exit"
    /\ exitPoller.cmds = ExitOpenClose
    /\ \E i \in 1..Len(entries) :
         /\ entries[i].exit_time # NoTime
         /\ entries[i].exit_time - entries[i].entry_time <= 60 * DefaultFreeMinutes
         /\ entries[i].parking_fee = 0
         /\ entries[i].paid

\* C5 as claimed: an accepted payment for a known, unpaid entry sets paid
\* before any barrier command, commands the exit barrier open, then close, and
\* when it returns the entry is paid and has an exit timestamp (EXITED_PAID).
C5_PaymentReachesExitedPaid ==
    [][\A c \in Clients :
         /\ (payment[c].pc = "idle" /\ payment'[c].pc = "open") =>
               /\ entries'[payment'[c].vehicle_id].paid
               /\ payment'[c].cmds = <<>>
         /\ (payment[c].pc = "close" /\ payment'[c].pc = "idle") =>
               /\ payment[c].cmds = <<control_barrier("open", FALSE)>>
               /\ entries'[payment[c].vehicle_id].paid
               /\ entries'[payment[c].vehicle_id].exit_time # NoTime]_vars

\* C6 as claimed: a payment confirmation for an exited, unpaid entry whose
\* amount differs from the stored fee is rejected, leaves the entry unpaid and
\* commands no barrier.
C6_WrongAmountRejected ==
    [][\A c \in Clients, vehicle_id \in 1..Len(entries), amount \in Amounts :
         (/\ PaymentRequest(c, vehicle_id, amount)
          /\ entries[vehicle_id].exit_time # NoTime
          /\ entries[vehicle_id].parking_fee > 0
          /\ ~entries[vehicle_id].paid
          /\ amount # entries[vehicle_id].parking_fee) =>
             /\ payment'[c].result = "PaymentRejected"
             /\ payment'[c].pc = "idle"
             /\ entries'[vehicle_id].paid = FALSE]_vars

\* C7: a payment confirmation for an entry that is already paid answers
\* AlreadyPaid, changes no entry and commands no barrier.
C7_AlreadyPaid ==
    [][\A c \in Clients, vehicle_id \in 1..Len(entries), amount \in Amounts :
         (PaymentRequest(c, vehicle_id, amount) /\ entries[vehicle_id].paid) =>
             /\ payment'[c].result = "AlreadyPaid"
             /\ payment'[c].pc = "idle"
             /\ payment'[c].cmds = <<>>
             /\ entries' = entries
             /\ settings' = settings]_vars

\* a paid entry exists and a confirmation has been answered AlreadyPaid
C7_Witness ==
    /\ \E c \in Clients : payment[c].result = "AlreadyPaid"
    /\ \E i \in 1..Len(entries) : entries[i].paid

\* C8: a payment confirmation for an id the ledger does not hold answers
\* NotFound, changes nothing in the ledger and commands no barrier.
C8_NotFound ==
    [][\A c \in Clients, amount \in Amounts :
         \A vehicle_id \in (1..(MaxEntries + 1)) \ (1..Len(entries)) :
            PaymentRequest(c, vehicle_id, amount) =>
               /\ payment'[c].result = "NotFound"
               /\ payment'[c].pc = "idle"
               /\ payment'[c].cmds = <<>>
               /\ entries' = entries
               /\ settings' = settings]_vars

\* the ledger holds entries and a confirmation has been answered NotFound
C8_Witness ==
    /\ \E c \in Clients : payment[c].result = "NotFound"
    /\ Len(entries) >= 1

\* C9: an exit detection for a plate with no open entry creates no entry,
\* changes no entry and commands no barrier.
C9_ExitWithoutEntry ==
    [][\A plate \in Plates :
         (ExitDetection(plate) /\ OpenEntries(plate) = {}) =>
             /\ entries' = entries
             /\ settings' = settings
             /\ exitPoller'.pc = "poll"
             /\ exitPoller'.cmds = <<>>]_vars

\* an exit detection found no entry although the ledger holds an exited one
C9_Witness ==
    /\ exitPoller.result = "no_entry"
    /\ \E i \in 1..Len(entries) : entries[i].exit_time # NoTime

\* C10: an entry detection for a plate that has an open entry creates and
\* changes no entry and commands no barrier.
C10_DuplicateEntryNoOp ==
    [][\A plate \in Plates :
         (EntryDetection(plate) /\ OpenEntries(plate) # {}) =>
             /\ entries' = entries
             /\ entryPoller'.pc = "poll"
             /\ entryPoller'.cmds = <<>>]_vars

\* both plates are parked and a repeated detection has been refused
C10_Witness ==
    /\ entryPoller.result = "duplicate"
    /\ \A plate \in Plates : OpenEntries(plate) # {}

\* ================================================== the fee calculation alone
\* timestamps: whole hours plus an offset of seconds (half a minute, 10, 15,
\* 15.5 and 20 minutes), or absent
FeeOffsets == {0, 30, 600, 900, 930, 1200}
FeeTimes == {h * 3600 + o : h \in 0..MaxHours, o \in FeeOffsets}
FeeEntryTimes == {NoTime, 0, 3600}
FeeExitTimes == {NoTime} \cup FeeTimes

\* rows PUT /api/settings/ can store: ParkingSettingsUpdate validates no range
FeeSettings ==
    {ParkingSettings(base, additional, free) :
        base \in {-20, 0, 50}, additional \in {-30, 30}, free \in {-100, 0, 15}}

FeeInit ==
    /\ entries = <<>>
    /\ settings = <<>>
    /\ now = 0
    /\ ticks = 0
    /\ started = FALSE
    /\ entryPoller = Idle
    /\ exitPoller = Idle
    /\ payment = [c \in Clients |-> NoRequest]
    /\ monitoring_active = FALSE
    /\ operator = NoOperator
    /\ fee_call \in {[entry_time |-> e, exit_time |-> x, settings |-> s,
                      fee |-> 0, returned |-> FALSE] :
                        e \in FeeEntryTimes, x \in FeeExitTimes, s \in FeeSettings}
    /\ admin = NoAdmin
    /\ handlers = NoHandlers

\* payment_service.calculate_parking_fee(entry_time, exit_time, parking_settings)
FeeCall ==
    /\ ~fee_call.returned
    /\ fee_call' = [fee_call EXCEPT
                      !.fee = calculate_parking_fee(fee_call.entry_time,
                                  fee_call.exit_time, fee_call.settings),
                      !.returned = TRUE]
    /\ UNCHANGED <<entries, settings, now, ticks, started, entryPoller,
                   exitPoller, payment, monitoring_active, operator, admin, handlers>>

FeeNext == FeeCall

FeeSpec == FeeInit /\ [][FeeNext]_vars

\* the call has returned and both timestamps were given, exit not before entry
FeeCallValid ==
    /\ fee_call.returned
    /\ fee_call.entry_time # NoTime
    /\ fee_call.exit_time # NoTime
    /\ fee_call.exit_time >= fee_call.entry_time

FeeCallSeconds == fee_call.exit_time - fee_call.entry_time

C12_ChargeableHoursCeil ==
    (FeeCallValid /\ FeeCallSeconds > 60 * fee_call.settings.free_minutes) =>
       LET over == FeeCallSeconds - 60 * fee_call.settings.free_minutes
           chargeableHours == Max(1, (over + 3599) \div 3600)
       IN  fee_call.fee =
              IF chargeableHours = 1 THEN fee_call.settings.base_price_per_hour
              ELSE fee_call.settings.base_price_per_hour
                   + (chargeableHours - 1) * fee_call.settings.additional_price_per_hour

\* C13 as claimed: the fee is 0 whenever the exit time is before the entry
\* time or a timestamp is absent, for every pricing config.
C13_InvalidIntervalIsFree ==
    (/\ fee_call.returned
     /\ \/ fee_call.entry_time = NoTime
        \/ fee_call.exit_time = NoTime
        \/ fee_call.exit_time < fee_call.entry_time) =>
       fee_call.fee = 0

\* ======================================== the camera loops, cycle by cycle
\* The pollers with every step of their while True loop: pc "poll" is the
\* await of capture_and_recognize, "open"/"close"/"mark" are the awaits of the
\* handler, "sleep" and "backoff" the two asyncio.sleep.  Every barrier command
\* gets an outcome of the device.  The clock stands still: every exit is free.
MonitorInit == Init

\* shutdown_event: the flag is cleared; no coroutine reads it
Shutdown ==
    /\ started
    /\ monitoring_active
    /\ monitoring_active' = FALSE
    /\ UNCHANGED <<entries, settings, now, ticks, started, entryPoller,
                   exitPoller, payment, operator, fee_call, admin, handlers>>

\* ---- monitor_entry_camera
\* capture_and_recognize returns None: no picture, or no plate in it
MonitorEntryNone ==
    /\ started
    /\ entryPoller.pc = "poll"
    /\ entryPoller' = [pc |-> monitor_after("none"), id |-> 0, result |-> "none",
                       cmds |-> <<>>]
    /\ UNCHANGED <<entries, settings, now, ticks, started, exitPoller, payment,
                   monitoring_active, operator, fee_call, admin, handlers>>

\* the cycle raises outside the handler's try: the recognizer, or SessionLocal()
MonitorEntryRaised ==
    /\ started
    /\ entryPoller.pc = "poll"
    /\ entryPoller' = [pc |-> monitor_after("raised"), id |-> 0,
                       result |-> "raised", cmds |-> <<>>]
    /\ UNCHANGED <<entries, settings, now, ticks, started, exitPoller, payment,
                   monitoring_active, operator, fee_call, admin, handlers>>

\* a plate is recognized and the ledger raises in handle_vehicle_entry: the
\* except clause of the handler, nothing is committed, the callback returns
MonitorEntryLedgerFailure ==
    /\ started
    /\ entryPoller.pc = "poll"
    /\ entryPoller' = [pc |-> monitor_after("detected"), id |-> 0,
                       result |-> "ledger_failure", cmds |-> <<>>]
    /\ UNCHANGED <<entries, settings, now, ticks, started, exitPoller, payment,
                   monitoring_active, operator, fee_call, admin, handlers>>

\* a plate is recognized: handle_vehicle_entry to its first await, or to its
\* return when the car is already parked
MonitorEntryDetection(plate) ==
    /\ started
    /\ entryPoller.pc = "poll"
    /\ LET r == handle_vehicle_entry(entries, plate, now)
       IN  /\ Len(r.entries) <= MaxEntries
           /\ entries' = r.entries
           /\ entryPoller' = IF r.result = "created"
                             THEN [pc |-> "open", id |-> r.id, result |-> r.result,
                                   cmds |-> <<>>]
                             ELSE [pc |-> monitor_after("detected"), id |-> 0,
                                   result |-> r.result, cmds |-> <<>>]
    /\ UNCHANGED <<settings, now, ticks, started, exitPoller, payment,
                   monitoring_active, operator, fee_call, admin, handlers>>

MonitorEntryOpen(outcome) ==
    /\ entryPoller.pc = "open"
    /\ entryPoller' = [entryPoller EXCEPT !.pc = "close",
                          !.cmds = Append(@, Command("open", TRUE, outcome))]
    /\ UNCHANGED <<entries, settings, now, ticks, started, exitPoller, payment,
                   monitoring_active, operator, fee_call, admin, handlers>>

\* the close command has returned, the handler and the callback return
MonitorEntryClose(outcome) ==
    /\ entryPoller.pc = "close"
    /\ entryPoller' = [entryPoller EXCEPT !.pc = monitor_after("detected"),
                          !.cmds = Append(@, Command("close", TRUE, outcome))]
    /\ UNCHANGED <<entries, settings, now, ticks, started, exitPoller, payment,
                   monitoring_active, operator, fee_call, admin, handlers>>

\* asyncio.sleep(5) or asyncio.sleep(10) is over: the next cycle
MonitorEntrySleep ==
    /\ entryPoller.pc \in {"sleep", "backoff"}
    /\ entryPoller' = [Idle EXCEPT !.result = entryPoller.result]
    /\ UNCHANGED <<entries, settings, now, ticks, started, exitPoller, payment,
                   monitoring_active, operator, fee_call, admin, handlers>>

MonitorEntryStep ==
    \/ MonitorEntryNone
    \/ MonitorEntryRaised
    \/ MonitorEntryLedgerFailure
    \/ \E plate \in Plates : MonitorEntryDetection(plate)
    \/ \E outcome \in Outcomes : MonitorEntryOpen(outcome)
    \/ \E outcome \in Outcomes : MonitorEntryClose(outcome)
    \/ MonitorEntrySleep

\* ---- monitor_exit_camera
MonitorExitNone ==
    /\ started
    /\ exitPoller.pc = "poll"
    /\ exitPoller' = [pc |-> monitor_after("none"), id |-> 0, result |-> "none",
                      cmds |-> <<>>]
    /\ UNCHANGED <<entries, settings, now, ticks, started, entryPoller, payment,
                   monitoring_active, operator, fee_call, admin, handlers>>

MonitorExitRaised ==
    /\ started
    /\ exitPoller.pc = "poll"
    /\ exitPoller' = [pc |-> monitor_after("raised"), id |-> 0,
                      result |-> "raised", cmds |-> <<>>]
    /\ UNCHANGED <<entries, settings, now, ticks, started, entryPoller, payment,
                   monitoring_active, operator, fee_call, admin, handlers>>

\* the ledger raises in handle_vehicle_exit before anything is committed
MonitorExitLedgerFailure ==
    /\ started
    /\ exitPoller.pc = "poll"
    /\ exitPoller' = [pc |-> monitor_after("detected"), id |-> 0,
                      result |-> "ledger_failure", cmds |-> <<>>]
    /\ UNCHANGED <<entries, settings, now, ticks, started, entryPoller, payment,
                   monitoring_active, operator, fee_call, admin, handlers>>

\* handle_vehicle_exit to its first await, or to its return when no barrier
\* is to be opened
MonitorExitDetection(plate) ==
    /\ started
    /\ exitPoller.pc = "poll"
    /\ LET r == handle_vehicle_exit(entries, settings, plate, now)
       IN  /\ entries' = r.entries
           /\ settings' = r.settings
           /\ exitPoller' = IF r.result = "free"
                            THEN [pc |-> "open", id |-> r.id, result |-> r.result,
                                  cmds |-> <<>>]
                            ELSE [pc |-> monitor_after("detected"), id |-> 0,
                                  result |-> r.result, cmds |-> <<>>]
    /\ UNCHANGED <<now, ticks, started, entryPoller, payment,
                   monitoring_active, operator, fee_call, admin, handlers>>

MonitorExitOpen(outcome) ==
    /\ exitPoller.pc = "open"
    /\ exitPoller' = [exitPoller EXCEPT !.pc = "close",
                         !.cmds = Append(@, Command("open", FALSE, outcome))]
    /\ UNCHANGED <<entries, settings, now, ticks, started, entryPoller, payment,
                   monitoring_active, operator, fee_call, admin, handlers>>

\* the close command has returned: crud.mark_as_paid, the callback returns
MonitorExitClose(outcome) ==
    /\ exitPoller.pc = "close"
    /\ entries' = mark_as_paid(entries, exitPoller.id)
    /\ exitPoller' = [exitPoller EXCEPT !.pc = monitor_after("detected"),
                         !.result = "free_exit",
                         !.cmds = Append(@, Command("close", FALSE, outcome))]
    /\ UNCHANGED <<settings, now, ticks, started, entryPoller, payment,
                   monitoring_active, operator, fee_call, admin, handlers>>

MonitorExitSleep ==
    /\ exitPoller.pc \in {"sleep", "backoff"}
    /\ exitPoller' = [Idle EXCEPT !.result = exitPoller.result]
    /\ UNCHANGED <<entries, settings, now, ticks, started, entryPoller, payment,
                   monitoring_active, operator, fee_call, admin, handlers>>

MonitorExitStep ==
    \/ MonitorExitNone
    \/ MonitorExitRaised
    \/ MonitorExitLedgerFailure
    \/ \E plate \in Plates : MonitorExitDetection(plate)
    \/ \E outcome \in Outcomes : MonitorExitOpen(outcome)
    \/ \E outcome \in Outcomes : MonitorExitClose(outcome)
    \/ MonitorExitSleep

MonitorNext ==
    \/ Startup
    \/ Shutdown
    \/ MonitorEntryStep
    \/ MonitorExitStep

\* The event loop resumes every coroutine that is ready, and every await of the
\* loops ends: the requests carry a timeout (10 s for the picture, 5 s for a
\* barrier command) and the sleeps are finite.
MonitorSpec ==
    /\ MonitorInit
    /\ [][MonitorNext]_vars
    /\ WF_vars(Startup)
    /\ WF_vars(MonitorEntryStep)
    /\ WF_vars(MonitorExitStep)

EntryOpenClose(opened, closed) ==
    <<Append(control_barrier("open", TRUE), opened),
      Append(control_barrier("close", TRUE), closed)>>

\* C14: an entry detection for a plate with no open entry commits the entry
\* record before any entry barrier command, and an OPEN or CLOSE command,
\* failed or not, leaves every entry record as it is: the new record stays.
C14_EntryCommittedBeforeBarrier ==
    [][/\ \A plate \in Plates :
            (MonitorEntryDetection(plate) /\ OpenEntries(plate) = {}) =>
               /\ entries' = Append(entries, VehicleEntry(plate, now))
               /\ entryPoller'.pc = "open"
               /\ entryPoller'.id = Len(entries')
               /\ entryPoller'.cmds = <<>>
       /\ \A outcome \in Outcomes :
            (MonitorEntryOpen(outcome) \/ MonitorEntryClose(outcome)) =>
               /\ entryPoller.id \in 1..Len(entries)
               /\ entries' = entries
               /\ entryPoller'.id = entryPoller.id
               /\ entryPoller'.pc \in {"close", "sleep"}]_vars

\* both commands of an entry have failed, the handler has returned, and the
\* entry record is in the ledger, open
C14_Witness ==
    /\ entryPoller.pc = "sleep"
    /\ entryPoller.cmds = EntryOpenClose(FALSE, FALSE)
    /\ entryPoller.id \in 1..Len(entries)
    /\ entries[entryPoller.id].exit_time = NoTime

\* C17: a cycle in which the recognizer fails or returns nothing calls no
\* handler (no entry changes, no barrier command), and whatever fails in a
\* cycle, each poller, once started, always begins another cycle later.
C17_PollersKeepPolling ==
    /\ [][/\ (MonitorEntryNone \/ MonitorEntryRaised) =>
               /\ entries' = entries
               /\ entryPoller'.pc \in {"sleep", "backoff"}
               /\ entryPoller'.cmds = <<>>
          /\ (MonitorExitNone \/ MonitorExitRaised) =>
               /\ entries' = entries
               /\ exitPoller'.pc \in {"sleep", "backoff"}
               /\ exitPoller'.cmds = <<>>]_vars
    /\ [](started => <>(entryPoller.pc = "poll"))
    /\ [](started => <>(entryPoller.pc \in {"sleep", "backoff"}))
    /\ [](started => <>(exitPoller.pc = "poll"))
    /\ [](started => <>(exitPoller.pc \in {"sleep", "backoff"}))

\* the entry poller begins a cycle after one that raised, the exit poller
\* after one in which the ledger failed
C17_Witness ==
    /\ entryPoller.pc = "poll"
    /\ entryPoller.result = "raised"
    /\ exitPoller.pc = "poll"
    /\ exitPoller.result = "ledger_failure"

\* C18 as claimed: once the monitoring flag is cleared, each poller eventually
\* stops polling: from some point on it begins no cycle.
C18_PollersStopAfterShutdown ==
    [](( started /\ ~monitoring_active) =>
          <>[](entryPoller.pc # "poll" /\ exitPoller.pc # "poll"))

\* ================================= the operator's endpoints beside the pollers
\* ---- POST /api/barrier/entry/{action}, POST /api/barrier/exit/{action}
BarrierActions == {"open", "close"}

\* an action other than open or close: HTTPException(400), no command
ManualBarrierInvalid ==
    /\ started
    /\ operator.pc = "idle"
    /\ operator' = [NoOperator EXCEPT !.request = "invalid"]
    /\ UNCHANGED <<entries, settings, now, ticks, started, entryPoller,
                   exitPoller, payment, monitoring_active, fee_call, admin, handlers>>

\* control_entry_barrier / control_exit_barrier: one command, its bool is the
\* "success" of the response
ManualBarrier(is_entry, action, outcome) ==
    /\ started
    /\ operator.pc = "idle"
    /\ action \in BarrierActions
    /\ operator' = [pc |-> "idle", request |-> "barrier",
                    cmds |-> <<Command(action, is_entry, outcome)>>,
                    answer |-> outcome]
    /\ UNCHANGED <<entries, settings, now, ticks, started, entryPoller,
                   exitPoller, payment, monitoring_active, fee_call, admin, handlers>>

\* ---- POST /api/system/emergency
\* await barrier_service.close_entry_barrier()
EmergencyCloseEntry(outcome) ==
    /\ started
    /\ operator.pc = "idle"
    /\ operator' = [pc |-> "close_exit", request |-> "emergency",
                    cmds |-> <<Command("close", TRUE, outcome)>>,
                    answer |-> outcome]
    /\ UNCHANGED <<entries, settings, now, ticks, started, entryPoller,
                   exitPoller, payment, monitoring_active, fee_call, admin, handlers>>

\* await barrier_service.close_exit_barrier(), then the response
EmergencyCloseExit(outcome) ==
    /\ operator.pc = "close_exit"
    /\ operator' = [operator EXCEPT !.pc = "idle",
                       !.cmds = Append(@, Command("close", FALSE, outcome)),
                       !.answer = outcome]
    /\ UNCHANGED <<entries, settings, now, ticks, started, entryPoller,
                   exitPoller, payment, monitoring_active, fee_call, admin, handlers>>

OperatorStep ==
    \/ ManualBarrierInvalid
    \/ \E is_entry \in BOOLEAN, action \in BarrierActions, outcome \in Outcomes :
          ManualBarrier(is_entry, action, outcome)
    \/ \E outcome \in Outcomes : EmergencyCloseEntry(outcome)
    \/ \E outcome \in Outcomes : EmergencyCloseExit(outcome)

\* the pollers beside the operator; the clock stands still
OperatorNext ==
    \/ Startup
    \/ EntryPollEmpty
    \/ \E plate \in Plates : EntryDetection(plate)
    \/ EntryBarrierOpen
    \/ EntryBarrierClose
    \/ ExitPollEmpty
    \/ \E plate \in Plates : ExitDetection(plate)
    \/ ExitBarrierOpen
    \/ ExitBarrierClose
    \/ ExitMarkPaid
    \/ OperatorStep

OperatorSpec == Init /\ [][OperatorNext]_vars

\* C15: a command that times out or cannot connect reports success = FALSE,
\* and success = TRUE is reported only when the device answered with status
\* 200.
C15_FailureIsNeverSuccess ==
    [][\A is_entry \in BOOLEAN, action \in BarrierActions, outcome \in Outcomes :
         ManualBarrier(is_entry, action, outcome) =>
            LET success == operator'.cmds[1][3]
            IN  /\ outcome.raised \in {"TimeoutError", "ClientConnectorError"} =>
                      success = FALSE
                /\ success = TRUE =>
                      (outcome.raised = "none" /\ outcome.status = 200)]_vars

\* a manual command has timed out and the response said success: false
C15_Witness ==
    /\ operator.request = "barrier"
    /\ operator.answer.raised = "TimeoutError"
    /\ operator.cmds[1][3] = FALSE

\* C16: emergency stop commands close on the entry barrier, then close on the
\* exit barrier, whatever the first command returned; emergency stop and the
\* manual barrier commands change no entry record and no pricing config.
C16_EmergencyClosesBoth ==
    [][/\ \A outcome \in Outcomes :
            EmergencyCloseEntry(outcome) =>
               /\ Len(operator'.cmds) = 1
               /\ SubSeq(operator'.cmds[1], 1, 2) = <<"entry", "close">>
               /\ operator'.pc = "close_exit"
       /\ \A outcome \in Outcomes :
            EmergencyCloseExit(outcome) =>
               /\ Len(operator'.cmds) = 2
               /\ operator'.cmds[1] = operator.cmds[1]
               /\ SubSeq(operator'.cmds[2], 1, 2) = <<"exit", "close">>
               /\ operator'.pc = "idle"
       /\ OperatorStep => (entries' = entries /\ settings' = settings)]_vars

\* an emergency stop has ended, the entry barrier did not answer, while a car
\* is parked and the exit poller is between its open and its close command
C16_Witness ==
    /\ operator.pc = "idle"
    /\ operator.request = "emergency"
    /\ operator.cmds = << <<"entry", "close", FALSE>>, <<"exit", "close", TRUE>> >>
    /\ exitPoller.pc = "close"
    /\ \E i \in 1..Len(entries) : entries[i].exit_time = NoTime

\* ====================================== two callers of POST /api/payment/
PayClients == {"c1", "c2"}

PayInit ==
    /\ entries = <<>>
    /\ settings = <<>>
    /\ now = 0
    /\ ticks = 0
    /\ started = FALSE
    /\ entryPoller = Idle
    /\ exitPoller = Idle
    /\ payment = [c \in PayClients |-> NoRequest]
    /\ monitoring_active = FALSE
    /\ operator = NoOperator
    /\ fee_call = NoCall
    /\ admin = NoAdmin
    /\ handlers = NoHandlers

\* the clock stands still: the unpaid entries are those of parked cars and of
\* free exits in progress; process_payment reads neither exit_time nor the fee
PayNext ==
    \/ Startup
    \/ \E plate \in Plates : EntryDetection(plate)
    \/ EntryBarrierOpen
    \/ EntryBarrierClose
    \/ \E plate \in Plates : ExitDetection(plate)
    \/ ExitBarrierOpen
    \/ ExitBarrierClose
    \/ ExitMarkPaid
    \/ \E c \in PayClients, vehicle_id \in 1..(Len(entries) + 1), amount \in Amounts :
          PaymentRequest(c, vehicle_id, amount)
    \/ \E c \in PayClients : PaymentBarrierOpen(c)
    \/ \E c \in PayClients : PaymentBarrierClose(c)

PaySpec == PayInit /\ [][PayNext]_vars

\* the clients whose accepted confirmation for the entry is between mark_as_paid
\* and its response
InFlightFor(vehicle_id) ==
    {c \in DOMAIN payment :
        payment[c].pc # "idle" /\ payment[c].vehicle_id = vehicle_id}

\* C19: of two payment confirmations for the same unpaid entry that overlap,
\* one is accepted and the other is answered AlreadyPaid without a barrier
\* command: an entry is accepted only while unpaid, stays paid, and never has
\* two accepted confirmations in their barrier sequence.
C19_OneConfirmationSucceeds ==
    /\ [](\A vehicle_id \in 1..Len(entries) : Cardinality(InFlightFor(vehicle_id)) <= 1)
    /\ [][/\ \A c \in PayClients, vehicle_id \in 1..Len(entries), amount \in Amounts :
               PaymentRequest(c, vehicle_id, amount) =>
                  IF InFlightFor(vehicle_id) # {} \/ entries[vehicle_id].paid
                  THEN /\ payment'[c].result = "AlreadyPaid"
                       /\ payment'[c].pc = "idle"
                       /\ payment'[c].cmds = <<>>
                       /\ entries' = entries
                  ELSE /\ payment'[c].pc = "open"
                       /\ entries'[vehicle_id].paid
          /\ \A c \in PayClients :
               PaymentBarrierOpen(c) =>
                  /\ InFlightFor(payment[c].vehicle_id) = {c}
                  /\ payment[c].cmds = <<>>
          /\ \A i \in 1..Len(entries) : entries[i].paid => entries'[i].paid]_vars

\* the confirmation of c1 for the only entry has commanded the barrier open,
\* the confirmation of c2 that arrived meanwhile was answered AlreadyPaid
C19_Witness ==
    /\ Len(entries) = 1
    /\ payment["c1"].pc = "close"
    /\ payment["c1"].vehicle_id = 1
    /\ payment["c1"].cmds = <<control_barrier("open", FALSE)>>
    /\ payment["c2"].result = "AlreadyPaid"

\* C20 as claimed: in every reachable state an entry that has an exit
\* timestamp and fee 0 is paid (the free exit marks it paid before the barrier
\* is commanded open).
C20_FreeExitIsPaid ==
    \A i \in 1..Len(entries) :
       (entries[i].exit_time # NoTime /\ entries[i].parking_fee = 0) => entries[i].paid

\* ======================================================= the ledger's rows
\* C21: once an entry has an exit timestamp, no step of an entry detection
\* or an exit detection (nor of a payment confirmation) changes its exit
\* timestamp or its fee.
C21_ExitWrittenOnce ==
    [][\A i \in 1..Len(entries) :
          entries[i].exit_time # NoTime =>
             /\ entries'[i].exit_time = entries[i].exit_time
             /\ entries'[i].parking_fee = entries[i].parking_fee]_vars

\* a plate left, came back and left again later: the two entries keep their
\* own exit timestamps
C21_Witness ==
    /\ Len(entries) = 2
    /\ entries[1].plate_number = entries[2].plate_number
    /\ entries[1].exit_time # NoTime
    /\ entries[2].exit_time # NoTime
    /\ entries[1].exit_time < entries[2].exit_time

\* C26 as claimed: a payment confirmation for an entry that is still parked
\* neither marks it paid nor starts a barrier sequence, and every exit barrier
\* open command is for an entry that has an exit timestamp.
C26_OpenOnlyForExited ==
    [][/\ \A c \in Clients, vehicle_id \in 1..Len(entries), amount \in Amounts :
            (/\ PaymentRequest(c, vehicle_id, amount)
             /\ entries[vehicle_id].exit_time = NoTime) =>
                /\ entries' = entries
                /\ payment'[c].pc = "idle"
       /\ ExitBarrierOpen => entries[exitPoller.id].exit_time # NoTime
       /\ \A c \in Clients :
            PaymentBarrierOpen(c) =>
               entries[payment[c].vehicle_id].exit_time # NoTime]_vars

\* C28: no entry detection, exit detection or payment confirmation, in any of
\* its steps, sets paid back to FALSE.
C28_PaidIsMonotone ==
    [][\A i \in 1..Len(entries) : entries[i].paid => entries'[i].paid]_vars

\* an entry was paid while the car was parked and is still paid after its
\* exit detection wrote exit timestamp and fee
C28_Witness ==
    \E i \in 1..Len(entries) :
       /\ entries[i].paid
       /\ entries[i].exit_time # NoTime
       /\ entries[i].parking_fee > 0

\* C29 as claimed: between the open command of one entry's sequence on the
\* exit gate and that sequence's own close command, no close command of
\* another entry's sequence is sent to the exit gate.
C29_SequencesDoNotInterleave ==
    [][/\ ExitBarrierClose =>
            \A c \in Clients :
               ~(payment[c].pc = "close" /\ payment[c].vehicle_id # exitPoller.id)
       /\ \A c \in Clients :
            PaymentBarrierClose(c) =>
               ~(exitPoller.pc = "close" /\ exitPoller.id # payment[c].vehicle_id)]_vars

\* ==================================================== the manual endpoints
\* bodies of PUT /api/vehicles/{id}: fields names the fields the request sets
\* (VehicleEntryUpdate, every field optional); here the operator waives a fee
VehicleEntryUpdates ==
    {[fields |-> {"parking_fee"}, exit_time |-> NoTime, parking_fee |-> 0,
      paid |-> FALSE]}

\* crud.update_vehicle_entry with the body of the request: setattr of the
\* fields that are set (dict(exclude_unset=True)), commit
update_vehicle_entry_manual(es, vehicle_id, update) ==
    IF get_vehicle_entry(es, vehicle_id) = 0
    THEN es
    ELSE [es EXCEPT ![vehicle_id] =
            [@ EXCEPT !.exit_time = IF "exit_time" \in update.fields
                                    THEN update.exit_time ELSE @,
                      !.parking_fee = IF "parking_fee" \in update.fields
                                      THEN update.parking_fee ELSE @,
                      !.paid = IF "paid" \in update.fields
                               THEN update.paid ELSE @]]

\* bodies of PUT /api/settings/
SettingsUpdates == {ParkingSettings(2 * DefaultBasePrice, DefaultAdditionalPrice,
                                    DefaultFreeMinutes)}

\* POST /api/vehicles/: crud.create_vehicle_entry with no lookup of the plate
ManualCreate(plate) ==
    /\ started
    /\ Len(entries) < MaxEntries
    /\ entries' = create_vehicle_entry(entries, plate, now)
    /\ UNCHANGED <<settings, now, ticks, started, entryPoller, exitPoller, payment>>
    /\ UNCHANGED <<monitoring_active, operator, fee_call, admin, handlers>>

\* PUT /api/vehicles/{vehicle_id}; 404 when the row does not exist
ManualUpdate(vehicle_id, update) ==
    /\ started
    /\ entries' = update_vehicle_entry_manual(entries, vehicle_id, update)
    /\ UNCHANGED <<settings, now, ticks, started, entryPoller, exitPoller, payment>>
    /\ UNCHANGED <<monitoring_active, operator, fee_call, admin, handlers>>

\* PUT /api/settings/ runs in a worker thread, beside the event loop:
\* crud.update_parking_settings first reads the row ...
UpdateSettingsQuery(update) ==
    /\ started
    /\ admin.pc = "idle"
    /\ admin' = [pc |-> "write", found |-> get_parking_settings(settings),
                 update |-> update]
    /\ UNCHANGED <<entries, settings, now, ticks, started, entryPoller,
                   exitPoller, payment, monitoring_active, operator, fee_call, handlers>>

\* ... and then writes the row it read, or creates one when it read none
UpdateSettingsWrite ==
    /\ admin.pc = "write"
    /\ settings' = IF admin.found # 0
                   THEN [settings EXCEPT ![admin.found] = admin.update]
                   ELSE create_parking_settings(settings, admin.update)
    /\ admin' = NoAdmin
    /\ UNCHANGED <<entries, now, ticks, started, entryPoller, exitPoller,
                   payment, monitoring_active, operator, fee_call, handlers>>

\* the lifecycle operations and the manual record update
ManualUpdateNext ==
    \/ Startup
    \/ Tick
    \/ \E plate \in Plates : EntryDetection(plate)
    \/ EntryBarrierOpen
    \/ EntryBarrierClose
    \/ \E plate \in Plates : ExitDetection(plate)
    \/ ExitBarrierOpen
    \/ ExitBarrierClose
    \/ ExitMarkPaid
    \/ \E c \in Clients, vehicle_id \in 1..(Len(entries) + 1), amount \in Amounts :
          PaymentRequest(c, vehicle_id, amount)
    \/ \E c \in Clients : PaymentBarrierOpen(c)
    \/ \E c \in Clients : PaymentBarrierClose(c)
    \/ \E vehicle_id \in 1..(Len(entries) + 1), update \in VehicleEntryUpdates :
          ManualUpdate(vehicle_id, update)

ManualUpdateSpec == Init /\ [][ManualUpdateNext]_vars

\* the pollers, the manual entry creation and the settings update; the clock
\* stands still
AdminNext ==
    \/ Startup
    \/ \E plate \in Plates : EntryDetection(plate)
    \/ EntryBarrierOpen
    \/ EntryBarrierClose
    \/ \E plate \in Plates : ExitDetection(plate)
    \/ ExitBarrierOpen
    \/ ExitBarrierClose
    \/ ExitMarkPaid
    \/ \E plate \in Plates : ManualCreate(plate)
    \/ \E update \in SettingsUpdates : UpdateSettingsQuery(update)
    \/ UpdateSettingsWrite

AdminSpec == Init /\ [][AdminNext]_vars

\* a payment intent only on an entry that has left and owes a fee
PaymentIntentHasFee(row) ==
    row.payment_qr # NoQR => (row.exit_time # NoTime /\ row.parking_fee > 0)

\* a step of a detection or of a payment confirmation that writes the ledger
LifecycleWrite ==
    \/ \E plate \in Plates : EntryDetection(plate)
    \/ \E plate \in Plates : ExitDetection(plate)
    \/ ExitMarkPaid
    \/ \E c \in Clients, vehicle_id \in 1..(Len(entries) + 1), amount \in Amounts :
          PaymentRequest(c, vehicle_id, amount)

\* C24 as claimed: in every reachable state an entry that has a payment
\* intent has an exit timestamp and a fee greater than 0.
C24_PaymentIntentImpliesFee ==
    \A i \in 1..Len(entries) : PaymentIntentHasFee(entries[i])

\* a step after which an entry has a payment intent without exit timestamp
\* and fee > 0 that it did not have so before: a new entry that has a payment
\* intent, or an entry that lost its exit timestamp or fee or got the intent
BreaksPaymentIntent ==
    \E i \in 1..Len(entries') :
       IF i <= Len(entries)
       THEN PaymentIntentHasFee(entries[i]) /\ ~PaymentIntentHasFee(entries'[i])
       ELSE entries'[i].payment_qr # NoQR

\* C24: the entry detections, exit detections and payment confirmations keep
\* it: no step of theirs creates an entry that has a payment intent, gives an
\* entry a payment intent without exit timestamp and fee > 0, or takes exit
\* timestamp or fee from an entry that has a payment intent.
C24_LifecycleKeepsPaymentIntent ==
    [][BreaksPaymentIntent => ~LifecycleWrite]_vars

\* an exit detection gave an entry its fee and payment intent, and the payment
\* was confirmed afterwards
C24_Witness ==
    \E i \in 1..Len(entries) :
       /\ entries[i].payment_qr # NoQR
       /\ entries[i].exit_time # NoTime
       /\ entries[i].parking_fee > 0
       /\ entries[i].paid
       /\ \E c \in Clients : payment[c].pc = "close" /\ payment[c].vehicle_id = i

C27_ManualCreateKeepsOneOpenEntry ==
    [][\A plate \in Plates :
         (/\ ManualCreate(plate)
          /\ \A p \in Plates : Cardinality(RowsByPlate(entries, p, TRUE)) <= 1) =>
            \A p \in Plates : Cardinality(RowsByPlate(entries', p, TRUE)) <= 1]_vars

\* the outcomes of a barrier request that the controller answered with 200
Answered == {outcome \in Outcomes : control_barrier_success(outcome)}

\* the detections, the payment confirmations and the operator's barrier
\* requests together; the clock stands still and the controller answers
LedgerNext ==
    \/ Startup
    \/ \E plate \in Plates : EntryDetection(plate)
    \/ EntryBarrierOpen
    \/ EntryBarrierClose
    \/ \E plate \in Plates : ExitDetection(plate)
    \/ ExitBarrierOpen
    \/ ExitBarrierClose
    \/ ExitMarkPaid
    \/ ManualBarrierInvalid
    \/ \E is_entry \in BOOLEAN, action \in BarrierActions, outcome \in Answered :
          ManualBarrier(is_entry, action, outcome)
    \/ \E outcome \in Answered : EmergencyCloseEntry(outcome)
    \/ \E outcome \in Answered : EmergencyCloseExit(outcome)
    \/ \E c \in Clients, vehicle_id \in 1..(Len(entries) + 1), amount \in Amounts :
          PaymentRequest(c, vehicle_id, amount)
    \/ \E c \in Clients : PaymentBarrierOpen(c)
    \/ \E c \in Clients : PaymentBarrierClose(c)

LedgerSpec == Init /\ [][LedgerNext]_vars

\* C23: no step of a detection, a payment confirmation or a barrier override
\* removes an entry or changes an entry's plate: the ids only grow.
C23_EntriesAreNeverDeleted ==
    [][/\ Len(entries') >= Len(entries)
       /\ \A i \in 1..Len(entries) :
             entries'[i].plate_number = entries[i].plate_number]_vars

\* both plates are in the ledger, one entry exited and paid, while an
\* operator's barrier request has been answered
C23_Witness ==
    /\ Len(entries) = 2
    /\ entries[1].plate_number # entries[2].plate_number
    /\ entries[1].exit_time # NoTime
    /\ entries[1].paid
    /\ entries[2].paid
    /\ operator.request # "none"

\* ================================= handle_vehicle_exit on a given database
\* The handler takes the session as its argument. The ledgers it is called
\* on: up to MaxEntries open entries made at 0 (the manual creation can give
\* a plate two); the settings table is empty or holds a row that differs from
\* the default; the call is made at once or an hour later.
ParkedLedgers ==
    UNION {[1..n -> {VehicleEntry(plate, 0) : plate \in Plates}] : n \in 0..MaxEntries}

ExitCallInit ==
    /\ entries \in ParkedLedgers
    /\ settings \in {<<>>} \cup {<<s>> : s \in SettingsUpdates}
    /\ now \in {0, TickStep(0)}
    /\ ticks = 0
    /\ started = TRUE
    /\ entryPoller = Idle
    /\ exitPoller = Idle
    /\ payment = [c \in Clients |-> NoRequest]
    /\ monitoring_active = TRUE
    /\ operator = NoOperator
    /\ fee_call = NoCall
    /\ admin = NoAdmin
    /\ handlers = NoHandlers

ExitCallNext ==
    \/ \E plate \in Plates : ExitDetection(plate)
    \/ ExitBarrierOpen
    \/ ExitBarrierClose
    \/ ExitMarkPaid

ExitCallSpec == ExitCallInit /\ [][ExitCallNext]_vars

\* C22: an exit detection that matches an open entry leaves a pricing config
\* in the ledger; when there was none, the config is the default one (50, 30,
\* 15) and the entry's fee is the fee computed with it.
C22_DefaultSettingsCreated ==
    [][\A plate \in Plates :
         LET vehicle_entry == get_vehicle_entry_by_plate(entries, plate, TRUE)
         IN  (ExitDetection(plate) /\ vehicle_entry # 0) =>
                /\ Len(settings') >= 1
                /\ get_parking_settings(settings) = 0 =>
                      /\ settings' = <<ParkingSettings(DefaultBasePrice,
                                          DefaultAdditionalPrice, DefaultFreeMinutes)>>
                      /\ entries'[vehicle_entry].parking_fee =
                            calculate_parking_fee(entries[vehicle_entry].entry_time,
                                                  now, settings'[1])]_vars

\* the default config was created by an exit detection an hour after the
\* entry, and the entry was charged the default base price
C22_Witness ==
    /\ settings = <<DefaultSettings>>
    /\ \E i \in 1..Len(entries) :
          /\ entries[i].exit_time # NoTime
          /\ entries[i].parking_fee = DefaultBasePrice
          /\ entries[i].payment_qr # NoQR

\* ========================================= the three barrier sequences
\* The sequences of handle_vehicle_entry, handle_vehicle_exit and
\* process_payment with the outcome of every command.  pc "close" is the dwell:
\* the open command has returned, the close command is to come.
\* ---- process_payment after crud.mark_as_paid
PaymentOpen(c, outcome) ==
    /\ payment[c].pc = "open"
    /\ payment' = [payment EXCEPT ![c] =
          [@ EXCEPT !.pc = IF control_barrier_returns(outcome) THEN "close" ELSE "idle",
                    !.result = IF control_barrier_returns(outcome) THEN @ ELSE "error",
                    !.cmds = Append(@, Command("open", FALSE, outcome))]]
    /\ UNCHANGED <<entries, settings, now, ticks, started, entryPoller, exitPoller,
                   monitoring_active, operator, fee_call, admin, handlers>>

\* the close command has returned: the response {"status": "success"}
PaymentClose(c, outcome) ==
    /\ payment[c].pc = "close"
    /\ payment' = [payment EXCEPT ![c] =
          [NoRequest EXCEPT !.result = "success",
                           !.cmds = Append(payment[c].cmds,
                                           Command("close", FALSE, outcome))]]
    /\ UNCHANGED <<entries, settings, now, ticks, started, entryPoller, exitPoller,
                   monitoring_active, operator, fee_call, admin, handlers>>

\* one car comes and goes
OnePlate == CHOOSE plate \in Plates : TRUE

\* the steps of a sequence that is under way
EntrySequenceStep ==
    \/ \E outcome \in Outcomes : MonitorEntryOpen(outcome)
    \/ \E outcome \in Outcomes : MonitorEntryClose(outcome)
    \/ MonitorEntrySleep

ExitSequenceStep ==
    \/ \E outcome \in Outcomes : MonitorExitOpen(outcome)
    \/ \E outcome \in Outcomes : MonitorExitClose(outcome)
    \/ MonitorExitSleep

PaymentSequenceStep(c) ==
    \/ \E outcome \in Outcomes : PaymentOpen(c, outcome)
    \/ \E outcome \in Outcomes : PaymentClose(c, outcome)

SequenceNext ==
    \/ Startup
    \/ MonitorEntryDetection(OnePlate)
    \/ EntrySequenceStep
    \/ MonitorExitDetection(OnePlate)
    \/ ExitSequenceStep
    \/ \E c \in Clients, vehicle_id \in 1..(Len(entries) + 1), amount \in Amounts :
          PaymentRequest(c, vehicle_id, amount)
    \/ \E c \in Clients : PaymentSequenceStep(c)

\* The event loop resumes a coroutine when what it awaits is done, and every
\* await of a sequence ends: session.put has timeout=5, the dwell is sleep(5).
\* Detections and payment requests come from outside and are not forced.
SequenceSpec ==
    /\ Init
    /\ [][SequenceNext]_vars
    /\ WF_vars(EntrySequenceStep)
    /\ WF_vars(ExitSequenceStep)
    /\ \A c \in Clients : WF_vars(PaymentSequenceStep(c))

\* the commands of a sequence whose open command has been sent and whose
\* close command has not
IsOpen(cmds, is_entry) ==
    /\ Len(cmds) = 1
    /\ <<cmds[1][1], cmds[1][2]>> = control_barrier("open", is_entry)

\* the commands of a finished sequence: open, then close, on one gate
IsOpenThenClose(cmds, is_entry) ==
    /\ Len(cmds) = 2
    /\ <<cmds[1][1], cmds[1][2]>> = control_barrier("open", is_entry)
    /\ <<cmds[2][1], cmds[2][2]>> = control_barrier("close", is_entry)

\* C30: whenever a sequence has sent its open command (whatever the command
\* returned), it later sends the close command to the same gate.
C30_OpenIsFollowedByClose ==
    /\ IsOpen(entryPoller.cmds, TRUE) ~> IsOpenThenClose(entryPoller.cmds, TRUE)
    /\ IsOpen(exitPoller.cmds, FALSE) ~> IsOpenThenClose(exitPoller.cmds, FALSE)
    /\ \A c \in Clients :
          IsOpen(payment[c].cmds, FALSE) ~> IsOpenThenClose(payment[c].cmds, FALSE)

\* the open command of a payment's sequence timed out or was refused and the
\* close command was sent all the same
C30_Witness ==
    \E c \in Clients :
       /\ payment[c].result = "success"
       /\ IsOpenThenClose(payment[c].cmds, FALSE)
       /\ payment[c].cmds[1][3] = FALSE

\* ======================================= the loops and the handlers they call
\* The loop of a poller (entryPoller.pc, exitPoller.pc: "poll", "await",
\* "sleep") and, apart from it, the handlers it has called and that have not
\* returned (handlers).  A handler that returns at its first statement is
\* never in the list.  The clock stands still.
RemoveAt(seq, k) == SubSeq(seq, 1, k - 1) \o SubSeq(seq, k + 1, Len(seq))

\* ---- monitor_entry_camera
\* a plate is recognized and the callback is called with it
PollerEntryDetection(plate) ==
    /\ started
    /\ entryPoller.pc = "poll"
    /\ LET r == handle_vehicle_entry(entries, plate, now)
           returned == r.result # "created"
       IN  /\ Len(r.entries) <= MaxEntries
           /\ entries' = r.entries
           /\ handlers' = IF returned THEN handlers
                          ELSE [handlers EXCEPT !.entry =
                                  Append(@, [pc |-> "open", id |-> r.id, cmds |-> <<>>])]
           /\ entryPoller' = [pc |-> callback_called(returned), id |-> 0,
                              result |-> r.result, cmds |-> <<>>]
    /\ UNCHANGED <<settings, now, ticks, started, exitPoller, payment,
                   monitoring_active, operator, fee_call, admin>>

PollerEntryOpen(k) ==
    /\ k \in DOMAIN handlers.entry
    /\ handlers.entry[k].pc = "open"
    /\ handlers' = [handlers EXCEPT !.entry[k].pc = "close",
                       !.entry[k].cmds = Append(@, control_barrier("open", TRUE))]
    /\ UNCHANGED <<entries, settings, now, ticks, started, entryPoller, exitPoller,
                   payment, monitoring_active, operator, fee_call, admin>>

\* the close command has returned and so does the handler: the loop that
\* awaits it goes on
PollerEntryClose(k) ==
    /\ k \in DOMAIN handlers.entry
    /\ handlers.entry[k].pc = "close"
    /\ handlers' = [handlers EXCEPT !.entry = RemoveAt(@, k)]
    /\ entryPoller' = IF entryPoller.pc = "await"
                      THEN [entryPoller EXCEPT !.pc = monitor_after("detected")]
                      ELSE entryPoller
    /\ UNCHANGED <<entries, settings, now, ticks, started, exitPoller, payment,
                   monitoring_active, operator, fee_call, admin>>

\* ---- monitor_exit_camera
PollerExitDetection(plate) ==
    /\ started
    /\ exitPoller.pc = "poll"
    /\ LET r == handle_vehicle_exit(entries, settings, plate, now)
           returned == r.result # "free"
       IN  /\ entries' = r.entries
           /\ settings' = r.settings
           /\ handlers' = IF returned THEN handlers
                          ELSE [handlers EXCEPT !.exit =
                                  Append(@, [pc |-> "open", id |-> r.id, cmds |-> <<>>])]
           /\ exitPoller' = [pc |-> callback_called(returned), id |-> 0,
                             result |-> r.result, cmds |-> <<>>]
    /\ UNCHANGED <<now, ticks, started, entryPoller, payment,
                   monitoring_active, operator, fee_call, admin>>

PollerExitOpen(k) ==
    /\ k \in DOMAIN handlers.exit
    /\ handlers.exit[k].pc = "open"
    /\ handlers' = [handlers EXCEPT !.exit[k].pc = "close",
                       !.exit[k].cmds = Append(@, control_barrier("open", FALSE))]
    /\ UNCHANGED <<entries, settings, now, ticks, started, entryPoller, exitPoller,
                   payment, monitoring_active, operator, fee_call, admin>>

\* the close command has returned: crud.mark_as_paid, the handler returns
PollerExitClose(k) ==
    /\ k \in DOMAIN handlers.exit
    /\ handlers.exit[k].pc = "close"
    /\ entries' = mark_as_paid(entries, handlers.exit[k].id)
    /\ handlers' = [handlers EXCEPT !.exit = RemoveAt(@, k)]
    /\ exitPoller' = IF exitPoller.pc = "await"
                     THEN [exitPoller EXCEPT !.pc = monitor_after("detected")]
                     ELSE exitPoller
    /\ UNCHANGED <<settings, now, ticks, started, entryPoller, payment,
                   monitoring_active, operator, fee_call, admin>>

PollerNext ==
    \/ Startup
    \/ \E plate \in Plates : PollerEntryDetection(plate)
    \/ \E k \in DOMAIN handlers.entry : PollerEntryOpen(k)
    \/ \E k \in DOMAIN handlers.entry : PollerEntryClose(k)
    \/ MonitorEntrySleep
    \/ \E plate \in Plates : PollerExitDetection(plate)
    \/ \E k \in DOMAIN handlers.exit : PollerExitOpen(k)
    \/ \E k \in DOMAIN handlers.exit : PollerExitClose(k)
    \/ MonitorExitSleep

PollerSpec == Init /\ [][PollerNext]_vars

\* C31: in every state each gate has at most one detection handler that has
\* not returned, and while it has one its loop is at the await of the
\* callback: it neither sleeps nor polls the recognizer.
C31_OneHandlerPerGate ==
    /\ Len(handlers.entry) <= 1
    /\ Len(handlers.exit) <= 1
    /\ handlers.entry # <<>> => entryPoller.pc = "await"
    /\ handlers.exit # <<>> => exitPoller.pc = "await"

\* an entry handler and an exit handler are in their barrier sequences at the
\* same time, each awaited by its loop
C31_Witness ==
    /\ Len(handlers.entry) = 1
    /\ Len(handlers.exit) = 1
    /\ handlers.entry[1].pc = "close"
    /\ handlers.exit[1].pc = "close"
    /\ entryPoller.pc = "await"
    /\ exitPoller.pc = "await"

====
